---- MODULE Spec2Model ----
(***************************************************************************)
(* Model of the Liferay uploader: the reconciler and batch orchestrator of *)
(* liferay_uploader/file_uploader.py and the matching engine of            *)
(* liferay_uploader/categorizer.py and main.py.                            *)
(*                                                                         *)
(* Text is a sequence of one-character strings.  The remote folder is the  *)
(* sequence of documents that dlapp/get-file-entries lists.  Every remote  *)
(* call either succeeds (its effect happens, a truthy body comes back) or  *)
(* fails (no effect, call_jsonws returns None).                            *)
(***************************************************************************)
EXTENDS Naturals, Sequences, FiniteSets, TLC

VARIABLES
    remote,     \* the remote folder: sequence of documents, in listing order
    nextId,     \* next fileEntryId the server hands out
    env,        \* fixed surroundings of one run: local files, server flavour
    failures,   \* number of remote calls that have failed so far
    calls,      \* log of the remote calls issued, in order
    recs,       \* the invocations of upload_or_replace_file, in order
    pc,         \* position of the single thread
    u,          \* locals of the running upload_or_replace_file
    b,          \* locals of the running upload_files_batch
    m           \* matcher inputs and results (find_matching_name & co)

vars == <<remote, nextId, env, failures, calls, recs, pc, u, b, m>>

(* ------------------------------ bounds -------------------------------- *)

\* longest files_list given to upload_files_batch
MaxFiles == 2
\* most direct calls of upload_or_replace_file in one run
MaxDirect == 2
\* most remote calls that fail in one run
MaxFailures == 2
\* longest file name given to the matcher
MaxNameLen == 3
\* most spreadsheet rows the reference index is built from
MaxRows == 2
\* the number of matched files up to which process_files uploads one by one;
\* main.py:292 has 20, scaled here to the lists the model can hold
IndividualLimit == 2

\* the most files os.listdir returns for the source folder of a run
MaxListed == 3

(* ------------------------------- text --------------------------------- *)

A_J == <<"a", ".", "j">>
A_P == <<"a", ".", "p">>
B_J == <<"b", ".", "j">>
FileNames == {A_J, A_P, B_J}

NoText == <<>>
Descriptions == {NoText, <<"d">>}

\* index of the last "." of s, 0 when there is none (str.rfind)
LastDot(s) ==
    IF \E i \in 1..Len(s) : s[i] = "."
    THEN CHOOSE i \in 1..Len(s) : s[i] = "." /\ \A j \in (i+1)..Len(s) : s[j] # "."
    ELSE 0

\* os.path.splitext(name)[0] for a name without directory part: the name up
\* to its last dot, unless only dots precede that dot
splitext_root(s) ==
    LET d == LastDot(s) IN
    IF d > 0 /\ \E k \in 1..(d-1) : s[k] # "." THEN SubSeq(s, 1, d-1) ELSE s

(* --------------------------- remote documents ------------------------- *)

None == [fileEntryId |-> 0, title |-> NoText, name |-> NoText, description |-> NoText]

Doc(id, title, name, description) ==
    [fileEntryId |-> id, title |-> title, name |-> name, description |-> description]

\* the test of file_uploader.py:58-59 had it folded letter case
EntryMatches_IgnoresCase(file_entry, filename) ==
    LET Fold(s) == [i \in DOMAIN s |-> IF s[i] = "A" THEN "a" ELSE s[i]] IN
    \/ Fold(file_entry.title) = Fold(splitext_root(filename))
    \/ Fold(file_entry.name) = Fold(filename)

\* the test of file_uploader.py:58-59
EntryMatches(file_entry, filename) ==
    \/ file_entry.title = splitext_root(filename)
    \/ file_entry.name = filename

RECURSIVE FirstMatch(_, _)
FirstMatch(entries, filename) ==
    IF entries = <<>> THEN None
    ELSE IF EntryMatches(Head(entries), filename) THEN Head(entries)
    ELSE FirstMatch(Tail(entries), filename)

\* check_file_exists on the answer of dlapp/get-file-entries: ok is FALSE
\* when call_jsonws returned None
check_file_exists(ok, entries, filename) ==
    IF ok /\ entries # <<>> THEN FirstMatch(entries, filename) ELSE None

\* number of documents of the folder that check_file_exists would accept
Matching(entries, filename) ==
    {k \in DOMAIN entries : EntryMatches(entries[k], filename)}

(* server side of the three writes *)

RECURSIVE Without(_, _)
Without(entries, id) ==
    IF entries = <<>> THEN <<>>
    ELSE IF Head(entries).fileEntryId = id THEN Without(Tail(entries), id)
    ELSE <<Head(entries)>> \o Without(Tail(entries), id)

ServerDelete(entries, id) == Without(entries, id)

ServerAdd(entries, doc) == Append(entries, doc)

ServerUpdate(entries, id, description) ==
    [k \in DOMAIN entries |->
        IF entries[k].fileEntryId = id
        THEN [entries[k] EXCEPT !.description = description]
        ELSE entries[k]]

\* outcomes a remote call may have: failing is possible while the budget lasts
Outcomes == IF failures < MaxFailures THEN BOOLEAN ELSE {TRUE}

Call(op, by, rec, idx, id, ok, nmatch) ==
    [op |-> op, by |-> by, rec |-> rec, idx |-> idx, id |-> id, ok |-> ok,
     nmatch |-> nmatch]

(* ------------------- upload_or_replace_file: decisions ---------------- *)

\* slip: the delete is attempted whether or not a document was found
NeedsDelete_WithoutExisting(existing_file, replace_existing) ==
    replace_existing

\* slip: the replace flag is not consulted
NeedsDelete_IgnoresFlag(existing_file, replace_existing) ==
    existing_file # None

\* slip: the replace flag read the wrong way round
NeedsDelete_FlagInverted(existing_file, replace_existing) ==
    existing_file # None /\ ~replace_existing

\* file_uploader.py:158  "if existing_file and replace_existing"
NeedsDelete(existing_file, replace_existing) ==
    existing_file # None /\ replace_existing

\* slip: a failed delete ends the reconciliation
AfterDelete_AbortOnFailure(deleted) == IF deleted THEN "add" ELSE "idle"

\* file_uploader.py:162-168: whether delete_file returned True or False, the
\* next statement is the upload
AfterDelete(deleted) == "add"

\* slip: the patch is issued when the description is there, not when it lacks
NeedsPatch_Inverted(description, result) ==
    description # NoText /\ result.description # NoText

\* file_uploader.py:219  "if description and not result.get('description')"
NeedsPatch(description, result) ==
    description # NoText /\ result.description = NoText

\* slip: the description-only fallback taken whatever replace_existing is
AfterUpload_IgnoresReplace(result, existing_file, replace_existing, description) ==
    IF result = None /\ existing_file # None
    THEN IF description # NoText THEN "fallback" ELSE "return"
    ELSE "return"

\* file_uploader.py:172-178: what follows _upload_file_internal
AfterUpload(result, existing_file, replace_existing, description) ==
    IF result = None /\ existing_file # None /\ ~replace_existing
    THEN IF description # NoText THEN "fallback" ELSE "return"
    ELSE "return"

\* the document dlapp/add-file-entry creates from the parameters of
\* file_uploader.py:197-207; the server flavour decides whether the
\* description given at upload time is stored and returned
NewDoc(file_name, description) ==
    Doc(nextId, splitext_root(file_name), file_name,
        IF env.keepsDescription THEN description ELSE NoText)

(* ------------------------ upload_files_batch: pieces ------------------ *)

\* description_template.format(filename=..., index=..., total=...): every
\* "{filename}" placeholder is replaced by the file name; the templates used
\* here hold no other placeholder
RECURSIVE Format(_, _, _, _)
Format(template, file_name, i, total) ==
    IF template = <<>> THEN <<>>
    ELSE IF Head(template) = "{filename}"
         THEN file_name \o Format(Tail(template), file_name, i, total)
         ELSE <<Head(template)>> \o Format(Tail(template), file_name, i, total)

\* file_uploader.py:269-285
BatchDescription(template, metadata, file_name, i, total) ==
    LET description == IF template # NoText
                       THEN Format(template, file_name, i, total) ELSE NoText
    IN  IF file_name \in metadata.has
        THEN IF description # NoText
             THEN description \o <<"\n">> \o metadata.description[file_name]
             ELSE metadata.description[file_name]
        ELSE description

\* file_uploader.py:289
IsReplacement(existing_file, replace_existing) ==
    existing_file # None /\ replace_existing

\* slip: results are put at the front of the lists
BatchRecord_Prepends(bb, result) ==
    LET result_info == [file_path |-> bb.files_list[bb.i],
                        file_entry_id |-> result.fileEntryId,
                        title |-> result.title,
                        description |-> result.description,
                        was_replaced |-> bb.is_replacement]
    IN  IF result # None
        THEN [bb EXCEPT !.successful = <<result_info>> \o @,
                        !.replaced = IF bb.is_replacement
                                     THEN <<result_info>> \o @ ELSE @]
        ELSE [bb EXCEPT !.failed = <<bb.files_list[bb.i]>> \o @]

\* slip: a failed file is not recorded
BatchRecord_DropsFailed(bb, result) ==
    IF result # None
    THEN [bb EXCEPT !.successful =
                Append(@, [file_path |-> bb.files_list[bb.i],
                           file_entry_id |-> result.fileEntryId,
                           title |-> result.title,
                           description |-> result.description,
                           was_replaced |-> bb.is_replacement])]
    ELSE bb

\* slip: the first failure ends the batch
BatchRecord_AbortOnFailure(bb, result) ==
    IF result # None
    THEN [bb EXCEPT !.successful =
                Append(@, [file_path |-> bb.files_list[bb.i],
                           file_entry_id |-> result.fileEntryId,
                           title |-> result.title,
                           description |-> result.description,
                           was_replaced |-> bb.is_replacement])]
    ELSE [bb EXCEPT !.failed = Append(@, bb.files_list[bb.i]),
                    !.i = Len(bb.files_list)]

\* file_uploader.py:301-321: the batch records what upload_or_replace_file
\* returned for files_list[i]
BatchRecord(bb, result) ==
    LET file_path == bb.files_list[bb.i]
        result_info == [file_path |-> file_path,
                        file_entry_id |-> result.fileEntryId,
                        title |-> result.title,
                        description |-> result.description,
                        was_replaced |-> bb.is_replacement]
    IN  IF result # None
        THEN [bb EXCEPT !.successful = Append(@, result_info),
                        !.replaced = IF bb.is_replacement
                                     THEN Append(@, result_info) ELSE @]
        ELSE [bb EXCEPT !.failed = Append(@, file_path)]

\* file_uploader.py:323-325 and the loop's step: the pause between two items
BatchAdvance(bb) ==
    [bb EXCEPT !.i = @ + 1,
               !.delays = IF bb.i < Len(bb.files_list) THEN Append(@, bb.i) ELSE @]

NoBatch ==
    [active |-> FALSE, files_list |-> <<>>, i |-> 0, replace_existing |-> FALSE,
     description_template |-> NoText,
     metadata |-> [has |-> {}, description |-> [n \in FileNames |-> NoText]],
     description |-> NoText, existing_file |-> None, is_replacement |-> FALSE,
     successful |-> <<>>, failed |-> <<>>, skipped |-> <<>>, replaced |-> <<>>,
     delays |-> <<>>]

NoFrame ==
    [file_path |-> NoText, description |-> NoText, replace_existing |-> FALSE,
     existing_file |-> None, result |-> None]

NoMatcher == [phase |-> "off"]

(* ------------------------------ the run ------------------------------- *)

\* the folder before the run: it holds a document for b.j and none for a.j
\* or a.p, so that the first reconciliation of a run is a creation or a
\* replacement according to its file; empty folders and folders with
\* several documents of one stem come about by the run's own calls
InitFolders ==
    { <<Doc(1, <<"b">>, B_J, <<"d">>)>> }

\* the files direct callers pass; b.j is missing locally in some runs
DirectFiles == {A_J, B_J}

Environments ==
    [exists : {FileNames, FileNames \ {B_J}}, keepsDescription : BOOLEAN]

Templates == {NoText, <<"T", "{filename}">>}

\* metadata with an entry, carrying a description, for a.j only
Metadatas ==
    { [has |-> {A_J},
       description |-> [n \in FileNames |-> IF n = A_J THEN <<"d">> ELSE NoText]] }

RECURSIVE SeqsUpTo(_, _)
SeqsUpTo(S, n) ==
    IF n = 0 THEN {<<>>}
    ELSE LET shorter == SeqsUpTo(S, n - 1)
         IN  shorter \cup {Append(q, x) : q \in shorter, x \in S}

Init ==
    /\ remote \in InitFolders
    /\ nextId = Len(remote) + 1
    /\ env \in Environments
    /\ failures = 0
    /\ calls = <<>>
    /\ recs = <<>>
    /\ pc = "idle"
    /\ u = NoFrame
    /\ b = NoBatch
    /\ m = NoMatcher

\* control leaves upload_or_replace_file with value ret: a direct caller
\* gets it, the batch records it (file_uploader.py:301-325) and loops
Return(rs, ret) ==
    /\ recs' = [rs EXCEPT ![Len(rs)].returned = TRUE, ![Len(rs)].ret = ret]
    /\ IF b.active
       THEN /\ b' = BatchAdvance(BatchRecord(b, ret))
            /\ pc' = "batch_loop"
       ELSE /\ b' = b
            /\ pc' = "idle"

\* file_uploader.py:146-156: entry of upload_or_replace_file up to the
\* existence check
Enter(file_path, description, replace_existing, idx) ==
    LET rec == [file_path |-> file_path, description |-> description,
                replace_existing |-> replace_existing, idx |-> idx,
                returned |-> FALSE, ret |-> None]
    IN  IF file_path \notin env.exists
        THEN /\ Return(Append(recs, rec), None)
             /\ u' = u
        ELSE /\ recs' = Append(recs, rec)
             /\ u' = [file_path |-> file_path, description |-> description,
                      replace_existing |-> replace_existing,
                      existing_file |-> None, result |-> None]
             /\ pc' = "check"
             /\ b' = b

\* a caller (main.py:169, or any user of the class) calls
\* upload_or_replace_file directly
upload_or_replace_file ==
    /\ pc = "idle"
    /\ ~b.active
    /\ Len(recs) < MaxDirect
    /\ \E file_path \in DirectFiles, description \in Descriptions,
          replace_existing \in BOOLEAN :
            Enter(file_path, description, replace_existing, 0)
    /\ UNCHANGED <<remote, nextId, env, failures, calls, m>>

\* file_uploader.py:156 with 33-67: the existence check of
\* upload_or_replace_file, then the branch of line 158
uorf_check_file_exists ==
    /\ pc = "check"
    /\ \E ok \in Outcomes :
        LET existing_file == check_file_exists(ok, remote, u.file_path) IN
        /\ failures' = IF ok THEN failures ELSE failures + 1
        /\ calls' = Append(calls, Call("list", "uorf", Len(recs), recs[Len(recs)].idx,
                                       existing_file.fileEntryId, ok,
                                       Cardinality(Matching(remote, u.file_path))))
        /\ u' = [u EXCEPT !.existing_file = existing_file]
        /\ pc' = IF NeedsDelete(existing_file, u.replace_existing)
                 THEN "delete" ELSE "add"
    /\ UNCHANGED <<remote, nextId, env, recs, b, m>>

\* file_uploader.py:162 with 100-126: delete_file on the existing document
delete_file ==
    /\ pc = "delete"
    /\ \E ok \in Outcomes :
        /\ failures' = IF ok THEN failures ELSE failures + 1
        /\ remote' = IF ok THEN ServerDelete(remote, u.existing_file.fileEntryId)
                     ELSE remote
        /\ calls' = Append(calls, Call("delete", "uorf", Len(recs), recs[Len(recs)].idx,
                                       u.existing_file.fileEntryId, ok, 0))
        /\ pc' = AfterDelete(ok)
    /\ UNCHANGED <<nextId, env, recs, u, b, m>>

\* file_uploader.py:168 with 180-229: _upload_file_internal up to the answer
\* of dlapp/add-file-entry, and what follows when no description patch is due
upload_file_internal ==
    /\ pc = "add"
    /\ \E ok \in Outcomes :
        LET doc == NewDoc(u.file_path, u.description)
            result == IF ok THEN doc ELSE None
        IN
        /\ failures' = IF ok THEN failures ELSE failures + 1
        /\ remote' = IF ok THEN ServerAdd(remote, doc) ELSE remote
        /\ nextId' = IF ok THEN nextId + 1 ELSE nextId
        /\ calls' = Append(calls, Call("add", "uorf", Len(recs), recs[Len(recs)].idx,
                                       result.fileEntryId, ok, 0))
        /\ u' = [u EXCEPT !.result = result]
        /\ IF ok /\ NeedsPatch(u.description, result)
           THEN /\ pc' = "patch"
                /\ UNCHANGED <<recs, b>>
           ELSE IF AfterUpload(result, u.existing_file, u.replace_existing,
                               u.description) = "fallback"
           THEN /\ pc' = "fallback"
                /\ UNCHANGED <<recs, b>>
           ELSE Return(recs, result)
    /\ UNCHANGED <<env, m>>

\* file_uploader.py:220-222: the description patch of the new document; its
\* answer is dropped and the created document is returned
patch_description ==
    /\ pc = "patch"
    /\ \E ok \in Outcomes :
        /\ failures' = IF ok THEN failures ELSE failures + 1
        /\ remote' = IF ok THEN ServerUpdate(remote, u.result.fileEntryId, u.description)
                     ELSE remote
        /\ calls' = Append(calls, Call("update", "uorf", Len(recs), recs[Len(recs)].idx,
                                       u.result.fileEntryId, ok, 0))
        /\ IF AfterUpload(u.result, u.existing_file, u.replace_existing,
                          u.description) = "fallback"
           THEN /\ pc' = "fallback"
                /\ UNCHANGED <<recs, b>>
           ELSE Return(recs, u.result)
    /\ UNCHANGED <<nextId, env, u, m>>

\* file_uploader.py:175-176: the description-only fallback on the existing
\* document
fallback_description ==
    /\ pc = "fallback"
    /\ \E ok \in Outcomes :
        /\ failures' = IF ok THEN failures ELSE failures + 1
        /\ remote' = IF ok THEN ServerUpdate(remote, u.existing_file.fileEntryId,
                                             u.description)
                     ELSE remote
        /\ calls' = Append(calls, Call("update", "uorf", Len(recs), recs[Len(recs)].idx,
                                       u.existing_file.fileEntryId, ok, 0))
        /\ Return(recs, u.existing_file)
    /\ UNCHANGED <<nextId, env, u, m>>

\* file_uploader.py:231-257: upload_files_batch is called
upload_files_batch ==
    /\ pc = "idle"
    /\ ~b.active
    /\ recs = <<>>
    /\ \E files_list \in SeqsUpTo(FileNames, MaxFiles), replace_existing \in BOOLEAN,
          template \in Templates, metadata \in Metadatas :
            b' = [NoBatch EXCEPT !.active = TRUE, !.files_list = files_list,
                                 !.i = 1, !.replace_existing = replace_existing,
                                 !.description_template = template,
                                 !.metadata = metadata]
    /\ pc' = "batch_loop"
    /\ UNCHANGED <<remote, nextId, env, failures, calls, recs, u, m>>

\* slip: a missing path is recorded as failed
batch_loop_MissingIsFailed ==
    /\ pc = "batch_loop"
    /\ IF b.i > Len(b.files_list)
       THEN /\ pc' = "done"
            /\ b' = b
       ELSE IF b.files_list[b.i] \notin env.exists
       THEN /\ b' = [b EXCEPT !.failed = Append(@, b.files_list[b.i]), !.i = @ + 1]
            /\ pc' = "batch_loop"
       ELSE /\ b' = [b EXCEPT !.description =
                        BatchDescription(b.description_template, b.metadata,
                                         b.files_list[b.i], b.i, Len(b.files_list))]
            /\ pc' = "batch_check"
    /\ UNCHANGED <<remote, nextId, env, failures, calls, recs, u, m>>

\* file_uploader.py:259-286 and 327-329: the head of one loop round
batch_loop ==
    /\ pc = "batch_loop"
    /\ IF b.i > Len(b.files_list)
       THEN /\ pc' = "done"
            /\ b' = b
       ELSE IF b.files_list[b.i] \notin env.exists
       THEN /\ b' = [b EXCEPT !.skipped = Append(@, b.files_list[b.i]), !.i = @ + 1]
            /\ pc' = "batch_loop"
       ELSE /\ b' = [b EXCEPT !.description =
                        BatchDescription(b.description_template, b.metadata,
                                         b.files_list[b.i], b.i, Len(b.files_list))]
            /\ pc' = "batch_check"
    /\ UNCHANGED <<remote, nextId, env, failures, calls, recs, u, m>>

\* file_uploader.py:288-299: the batch's own existence check, then the call
\* of upload_or_replace_file
batch_check_file_exists ==
    /\ pc = "batch_check"
    /\ \E ok \in Outcomes :
        LET file_name == b.files_list[b.i]
            existing_file == check_file_exists(ok, remote, file_name)
            bb == [b EXCEPT !.existing_file = existing_file,
                            !.is_replacement =
                                IsReplacement(existing_file, b.replace_existing)]
        IN
        /\ failures' = IF ok THEN failures ELSE failures + 1
        /\ calls' = Append(calls, Call("list", "batch", Len(recs) + 1, b.i,
                                       existing_file.fileEntryId, ok,
                                       Cardinality(Matching(remote, file_name))))
        /\ b' = bb
        /\ recs' = Append(recs, [file_path |-> file_name, description |-> b.description,
                                 replace_existing |-> b.replace_existing, idx |-> b.i,
                                 returned |-> FALSE, ret |-> None])
        /\ u' = [file_path |-> file_name, description |-> b.description,
                 replace_existing |-> b.replace_existing,
                 existing_file |-> None, result |-> None]
        /\ pc' = "check"
    /\ UNCHANGED <<remote, nextId, env, m>>

Next ==
    \/ upload_or_replace_file
    \/ uorf_check_file_exists
    \/ delete_file
    \/ upload_file_internal
    \/ patch_description
    \/ fallback_description
    \/ upload_files_batch
    \/ batch_loop
    \/ batch_check_file_exists

Spec == Init /\ [][Next]_vars

(* ------------------------- reading the call log ----------------------- *)

\* positions in the log of the calls upload_or_replace_file number r issued
CallsOf(r, op) ==
    {k \in DOMAIN calls : calls[k].rec = r /\ calls[k].by = "uorf" /\ calls[k].op = op}

\* the reconciliation that returned last, with no remote call issued since
JustReturned(r) == r = Len(recs) /\ recs[r].returned

DocsFor(file_name) == Matching(remote, file_name)

Ids(entries) == {entries[k].fileEntryId : k \in DOMAIN entries}

(* -------------------------------- C1 ---------------------------------- *)

\* two direct calls in a row, r-1 and r, for the same file with
\* replace_existing=True have just completed; the folder held at most one
\* document for the file before them, and every listing, delete and create
\* call of the two succeeded
C1_TwoCallsInARow(r) ==
    /\ r >= 2
    /\ r = Len(recs)
    /\ pc = "idle"
    /\ ~b.active
    /\ recs[r].returned
    /\ recs[r-1].file_path = recs[r].file_path
    /\ recs[r].file_path \in env.exists
    /\ recs[r-1].replace_existing /\ recs[r].replace_existing
    /\ \A k \in DOMAIN calls :
          calls[k].rec \in {r-1, r} /\ calls[k].op \in {"list", "delete", "add"}
             => calls[k].ok
    /\ \A k \in CallsOf(r-1, "list") : calls[k].nmatch <= 1

\* C1: under the single-writer assumption, after upload_or_replace_file was
\* called twice in a row for the same file with replace_existing=True (the
\* first call creating the document, the second deleting and re-creating it)
\* exactly one remote document for the file exists: the one the second call
\* created; the one of the first call was deleted by the second.
C1_RoundTripLeavesOne ==
    \A r \in DOMAIN recs :
        C1_TwoCallsInARow(r) =>
            /\ Cardinality(DocsFor(recs[r].file_path)) = 1
            /\ \A k \in DocsFor(recs[r].file_path) :
                  remote[k].fileEntryId = recs[r].ret.fileEntryId
            /\ recs[r-1].ret # None
            /\ recs[r-1].ret.fileEntryId \notin Ids(remote)
            /\ \E k \in CallsOf(r, "delete") : calls[k].id = recs[r-1].ret.fileEntryId

C1_Witness ==
    \E r \in DOMAIN recs :
        /\ C1_TwoCallsInARow(r)
        /\ \A k \in CallsOf(r-1, "list") : calls[k].nmatch = 0

(* -------------------------------- C2 ---------------------------------- *)

\* C2: when the existence check of upload_or_replace_file found a document
\* and replace_existing is true, the next remote call is the delete of that
\* document and the create comes after it; and after a failed delete the
\* create call is still issued: the reconciliation never ends there.
C2_DeleteThenCreateAnyway ==
    \A k \in DOMAIN calls :
        LET c == calls[k] IN
        /\ (c.op = "list" /\ c.by = "uorf" /\ c.id # 0 /\ recs[c.rec].replace_existing)
              => /\ k = Len(calls) => pc = "delete" /\ ~recs[c.rec].returned
                 /\ k < Len(calls) =>
                       /\ calls[k+1].op = "delete"
                       /\ calls[k+1].rec = c.rec
                       /\ calls[k+1].id = c.id
                 /\ \A j \in CallsOf(c.rec, "add") : j > k + 1
        /\ (c.op = "delete")
              => /\ k = Len(calls) => pc = "add" /\ ~recs[c.rec].returned
                 /\ k < Len(calls) => calls[k+1].op = "add" /\ calls[k+1].rec = c.rec

C2_Witness ==
    \E k \in DOMAIN calls :
        /\ calls[k].op = "delete"
        /\ ~calls[k].ok
        /\ k < Len(calls)
        /\ calls[k+1].op = "add"
        /\ recs[calls[k].rec].returned

(* -------------------------------- C3 ---------------------------------- *)

\* reconciliation r has returned; its upload failed, its existence check had
\* found a document and replace_existing was false
C3_Case(r) ==
    /\ recs[r].returned
    /\ ~recs[r].replace_existing
    /\ \E k \in CallsOf(r, "list") : calls[k].id # 0
    /\ \E k \in CallsOf(r, "add") : ~calls[k].ok

\* C3: whenever the upload fails, an existing document was found and
\* replace_existing is false, a description-update call is issued on the
\* existing document and that document is the outcome, for every description
\* value, the empty one included.
C3_FallbackForEveryDescription ==
    \A r \in DOMAIN recs :
        C3_Case(r) =>
            \E k \in CallsOf(r, "list") :
                /\ \E j \in CallsOf(r, "update") : calls[j].id = calls[k].id
                /\ recs[r].ret # None
                /\ recs[r].ret.fileEntryId = calls[k].id

(* -------------------------------- C4 ---------------------------------- *)

\* reconciliation r has returned; its create call succeeded and the document
\* it returned carries no description
C4_Case(r, k) ==
    /\ calls[k].op = "add"
    /\ calls[k].rec = r
    /\ calls[k].ok
    /\ recs[r].returned
    /\ ~env.keepsDescription

\* C4: when the create call succeeds but the returned document carries no
\* description, the description given (if any) is set by a separate update
\* call on the new document, issued right after the create, and whatever
\* that update returns the outcome is the created document, never a failure.
C4_PatchNeverDowngrades ==
    \A k \in DOMAIN calls :
        LET r == calls[k].rec IN
        C4_Case(r, k) =>
            /\ recs[r].ret # None
            /\ recs[r].ret.fileEntryId = calls[k].id
            /\ recs[r].description # NoText =>
                  /\ k < Len(calls)
                  /\ calls[k+1].op = "update"
                  /\ calls[k+1].rec = r
                  /\ calls[k+1].id = calls[k].id

C4_Witness ==
    \E r \in DOMAIN recs : \E k \in DOMAIN calls :
        /\ C4_Case(r, k)
        /\ k < Len(calls)
        /\ calls[k+1].op = "update"
        /\ ~calls[k+1].ok
        /\ recs[r].ret.fileEntryId = calls[k].id

(* -------------------------------- C5 ---------------------------------- *)

\* reconciliation r with replace_existing=True has just returned; its delete
\* of the existing document succeeded and its create failed
C5_Case(r) ==
    /\ JustReturned(r)
    /\ recs[r].replace_existing
    /\ \E k \in CallsOf(r, "delete") : calls[k].ok
    /\ \E k \in CallsOf(r, "add") : ~calls[k].ok

\* C5: if the delete of the existing document succeeds and the following
\* create fails, the outcome is a failure, no further create (and no other
\* write) is issued, the deleted document is not restored, and the folder
\* holds no document for the file when the deleted one was the only one.
C5_NoRollback ==
    \A r \in DOMAIN recs :
        C5_Case(r) =>
            /\ recs[r].ret = None
            /\ Cardinality(CallsOf(r, "add")) = 1
            /\ CallsOf(r, "update") = {}
            /\ \A k \in CallsOf(r, "delete") :
                  /\ calls[k].id \notin Ids(remote)
                  /\ k + 1 = Len(calls)
            /\ \A k \in CallsOf(r, "list") :
                  calls[k].nmatch = 1 => DocsFor(recs[r].file_path) = {}

C5_Witness ==
    \E r \in DOMAIN recs :
        /\ C5_Case(r)
        /\ \A k \in CallsOf(r, "list") : calls[k].nmatch = 1
        /\ DocsFor(recs[r].file_path) = {}

(* -------------------------------- C6 ---------------------------------- *)

Count(q, x) == Cardinality({k \in DOMAIN q : q[k] = x})

\* the successful entries that are not replacements
Created == SelectSeq(b.successful, LAMBDA info : ~info.was_replaced)

CountPath(infos, path) == Cardinality({k \in DOMAIN infos : infos[k].file_path = path})

\* C6: when upload_files_batch returns, created + replaced + failed + skipped
\* equals len(files_list), and every path is recorded as often as the list
\* holds it.
C6_CountsAddUp ==
    (b.active /\ pc = "done") =>
        /\ Len(Created) + Len(b.replaced) + Len(b.failed) + Len(b.skipped)
              = Len(b.files_list)
        /\ \A p \in FileNames :
              CountPath(Created, p) + CountPath(b.replaced, p)
                 + Count(b.failed, p) + Count(b.skipped, p) = Count(b.files_list, p)

C6_Witness ==
    /\ b.active /\ pc = "done"
    /\ Len(b.replaced) > 0
    /\ Len(b.failed) + Len(b.skipped) > 0

(* -------------------------------- C7 ---------------------------------- *)

\* the batch positions whose reconciliation returned a failure
FailedPositions == {recs[r].idx : r \in {x \in DOMAIN recs : recs[x].returned /\ recs[x].ret = None}}

RECURSIVE PathsAt(_, _)
\* the paths of files_list at the positions of P, in list order
PathsAt(i, P) ==
    IF i > Len(b.files_list) THEN <<>>
    ELSE (IF i \in P THEN <<b.files_list[i]>> ELSE <<>>) \o PathsAt(i + 1, P)

\* C7: in upload_files_batch a file whose reconciliation fails is recorded in
\* the failed list, no position of the list ever gets a second create call,
\* and every later file of the list is still processed (skipped when it is
\* missing, reconciled otherwise).
C7_FailedRecordedNoRetry ==
    b.active =>
        /\ \A i \in 1..Len(b.files_list) :
              Cardinality({k \in DOMAIN calls : calls[k].op = "add" /\ calls[k].idx = i}) <= 1
        /\ pc = "done" =>
              /\ b.failed = PathsAt(1, FailedPositions)
              /\ \A i \in 1..Len(b.files_list) :
                    IF b.files_list[i] \in env.exists
                    THEN \E r \in DOMAIN recs : recs[r].idx = i /\ recs[r].returned
                    ELSE Count(b.skipped, b.files_list[i]) = Count(b.files_list, b.files_list[i])

C7_Witness ==
    /\ b.active /\ pc = "done"
    /\ Len(b.files_list) >= 2
    /\ 1 \in FailedPositions
    /\ \E r \in DOMAIN recs : recs[r].idx = 2 /\ recs[r].returned /\ recs[r].ret # None

(* -------------------------------- C17 --------------------------------- *)

\* the positions of files_list the loop has passed whose path is missing
MissingPositions ==
    {i \in 1..Len(b.files_list) : i < b.i /\ b.files_list[i] \notin env.exists}

\* C17: in upload_files_batch a path that does not exist at its turn is
\* recorded in skipped, not in failed or successful, no remote call is issued
\* for it and the files after it are still processed; upload_or_replace_file
\* called directly on a missing path returns None without a remote call.
C17_MissingPathSkipped ==
    /\ b.active =>
          /\ b.skipped = PathsAt(1, MissingPositions)
          /\ \A i \in MissingPositions :
                /\ \A k \in DOMAIN calls : calls[k].idx # i
                /\ \A r \in DOMAIN recs : recs[r].idx # i
                /\ Count(b.failed, b.files_list[i]) = 0
                /\ CountPath(b.successful, b.files_list[i]) = 0
          /\ pc = "done" =>
                \A i \in 1..Len(b.files_list) :
                    b.files_list[i] \in env.exists =>
                        \E r \in DOMAIN recs : recs[r].idx = i /\ recs[r].returned
    /\ ~b.active =>
          \A r \in DOMAIN recs :
              recs[r].file_path \notin env.exists =>
                  /\ recs[r].returned
                  /\ recs[r].ret = None
                  /\ \A k \in DOMAIN calls : calls[k].rec # r

C17_Witness ==
    /\ b.active /\ pc = "done"
    /\ Len(b.files_list) >= 2
    /\ 1 \in MissingPositions
    /\ Len(b.successful) > 0

(* -------------------------------- C19 --------------------------------- *)

\* the batch positions whose reconciliation returned a document
SucceededPositions ==
    {recs[r].idx : r \in {x \in DOMAIN recs : recs[x].returned /\ recs[x].ret # None}}

PathsOf(infos) == [k \in DOMAIN infos |-> infos[k].file_path]

\* C19: upload_files_batch reconciles the files one at a time in the order of
\* files_list: every remote call for position i comes before the first call
\* for a later position, and successful, failed and skipped each list their
\* files in the order of files_list.
C19_InListOrder ==
    b.active =>
        /\ \A j, k \in DOMAIN calls : j < k => calls[j].idx <= calls[k].idx
        /\ \A k \in DOMAIN calls : calls[k].idx <= b.i
        /\ PathsOf(b.successful) = PathsAt(1, SucceededPositions)
        /\ b.failed = PathsAt(1, FailedPositions)
        /\ b.skipped = PathsAt(1, MissingPositions)
        /\ \A j \in DOMAIN b.successful :
              \E r \in DOMAIN recs :
                  /\ recs[r].returned
                  /\ recs[r].ret.fileEntryId = b.successful[j].file_entry_id
                  /\ recs[r].file_path = b.successful[j].file_path

C19_Witness ==
    /\ b.active /\ pc = "done"
    /\ Len(b.successful) = 2
    /\ b.successful[1].file_path # b.successful[2].file_path
    /\ \E j, k \in DOMAIN calls : calls[j].idx = 1 /\ calls[k].idx = 2

(* -------------------------------- C20 --------------------------------- *)

\* the remote operations of reconciliation r, in the order of the log
RECURSIVE OpsFrom(_, _)
OpsFrom(r, k) ==
    IF k > Len(calls) THEN <<>>
    ELSE (IF calls[k].rec = r /\ calls[k].by = "uorf"
          THEN <<calls[k].op>> ELSE <<>>) \o OpsFrom(r, k + 1)

OpsOf(r) == OpsFrom(r, 1)

\* the sequences of operations one reconciliation may consist of
FullOrders ==
    { <<"list", "add">>, <<"list", "add", "update">>,
      <<"list", "delete", "add">>, <<"list", "delete", "add", "update">> }

IsPrefix(p, q) == Len(p) <= Len(q) /\ SubSeq(q, 1, Len(p)) = p

AsciiLower ==
    {"a", "b", "c", "d", "e", "f", "g", "h", "i", "j", "k", "l", "m",
     "n", "o", "p", "q", "r", "s", "t", "u", "v", "w", "x", "y", "z"}
Digits == {"0", "1", "2", "3", "4", "5", "6", "7", "8", "9"}
CyrillicLower == {"cyr_a", "cyr_ya"}

\* str.lower() on one character
LowerChar(c) ==
    CASE c = "A" -> "a"
      [] c = "B" -> "b"
      [] c = "J" -> "j"
      [] c = "CYR_YA" -> "cyr_ya"
      [] c = "CYR_YO" -> "cyr_yo"
      [] c = "E_ACUTE" -> "e_acute"
      [] OTHER -> c

\* the class [a-z<cyr_a>-<cyr_ya><cyr_yo>0-9] of categorizer.py:28
KeptChar(c) == c \in AsciiLower \cup CyrillicLower \cup {"cyr_yo"} \cup Digits

RECURSIVE DropFirstOutside(_)
DropFirstOutside(text) ==
    IF text = <<>> THEN <<>>
    ELSE IF KeptChar(Head(text)) THEN <<Head(text)>> \o DropFirstOutside(Tail(text))
    ELSE Tail(text)

\* slip: re.sub with count=1 deletes the first outside character only
normalize_text_FirstOnly(text) ==
    DropFirstOutside([k \in DOMAIN text |-> LowerChar(text[k])])

\* slip: the class is \w, which keeps every letter, accented ones included
normalize_text_KeepsAccented(text) ==
    SelectSeq([k \in DOMAIN text |-> LowerChar(text[k])],
              LAMBDA c : KeptChar(c) \/ c = "e_acute")

RECURSIVE normalize_text(_)
\* categorizer.py:9-30 on text: lower(), then re.sub deletes every character
\* outside the class
normalize_text(text) ==
    IF text = <<>> THEN <<>>
    ELSE LET c == LowerChar(Head(text)) IN
         (IF KeptChar(c) THEN <<c>> ELSE <<>>) \o normalize_text(Tail(text))

\* slip: the extension is not taken off
normalize_filename_KeepsExtension(filename) == normalize_text(filename)

\* categorizer.py:33-47
normalize_filename(filename) == normalize_text(splitext_root(filename))

\* str() of a value that is not text (categorizer.py:19-20): an int prints
\* as its decimal digits with a sign, a float with one fractional digit as
\* whole.frac
DigitChar(d) == <<"0", "1", "2", "3", "4", "5", "6", "7", "8", "9">>[d + 1]

RECURSIVE DecimalDigits(_)
DecimalDigits(n) ==
    IF n < 10 THEN <<DigitChar(n)>>
    ELSE DecimalDigits(n \div 10) \o <<DigitChar(n % 10)>>

str(v) ==
    LET sign == IF v.num < 0 THEN <<"-">> ELSE <<>>
        whole == DecimalDigits(IF v.num < 0 THEN 0 - v.num ELSE v.num)
    IN  CASE v.kind = "str" -> v.text
          [] v.kind = "int" -> sign \o whole
          [] v.kind = "float" -> sign \o whole \o <<".">> \o DecimalDigits(v.frac)

\* categorizer.py:9-30 on any value: the coercion of lines 19-20, then the rest
normalize_value(v) == normalize_text(str(v))

Text(s) == [kind |-> "str", text |-> s, num |-> 0, frac |-> 0]

(* -------------------------------- Matcher ----------------------------- *)

\* "x in y" on text: x occurs in y as a contiguous piece
IsSubstring(x, y) ==
    \E i \in 0..(Len(y) - Len(x)) : SubSeq(y, i + 1, i + Len(x)) = x

\* A dict is the sequence of its items in insertion order, its keys distinct.
DictKeys(d) == {d[k].key : k \in DOMAIN d}

DictGet(d, key) == (CHOOSE k \in DOMAIN d : d[k].key = key)

\* slip: a known key keeps its first value (setdefault)
DictSet_KeepsFirst(d, key, value) ==
    IF key \in DictKeys(d) THEN d
    ELSE Append(d, [key |-> key, value |-> value])

\* d[key] = value: a new key goes last, a known key keeps its place
DictSet(d, key, value) ==
    IF key \in DictKeys(d)
    THEN [k \in DOMAIN d |-> IF d[k].key = key
                             THEN [key |-> key, value |-> value] ELSE d[k]]
    ELSE Append(d, [key |-> key, value |-> value])

NoMatch == [original_name |-> <<>>, description |-> <<>>, excel_row |-> 0]

\* the containment test of categorizer.py:67
Related(file_normalized, excel_normalized) ==
    \/ IsSubstring(file_normalized, excel_normalized)
    \/ IsSubstring(excel_normalized, file_normalized)

RECURSIVE ScanRelated(_, _)
\* the loop of categorizer.py:66-68 over the items
ScanRelated(file_normalized, items) ==
    IF items = <<>> THEN NoMatch
    ELSE IF Related(file_normalized, Head(items).key) THEN Head(items).value
    ELSE ScanRelated(file_normalized, Tail(items))

\* slip: the exact lookup is missing, the scan decides alone
find_matching_entry_ScanOnly(file_normalized, d) ==
    ScanRelated(file_normalized, d)

\* slip: the scan tests one direction only
find_matching_entry_OneWay(file_normalized, d) ==
    IF file_normalized \in DictKeys(d) THEN d[DictGet(d, file_normalized)].value
    ELSE IF \E k \in DOMAIN d : IsSubstring(file_normalized, d[k].key)
    THEN d[CHOOSE k \in DOMAIN d :
              /\ IsSubstring(file_normalized, d[k].key)
              /\ \A j \in 1..(k-1) : ~IsSubstring(file_normalized, d[j].key)].value
    ELSE NoMatch

\* categorizer.py:62-70: the entry find_matching_name selects
find_matching_entry(file_normalized, d) ==
    IF file_normalized \in DictKeys(d) THEN d[DictGet(d, file_normalized)].value
    ELSE ScanRelated(file_normalized, d)

\* categorizer.py:50-70 on the index read as key -> original name; <<>>
\* stands for None
find_matching_name(file_normalized, d) ==
    find_matching_entry(file_normalized, d).original_name

(* main.py has its own copy of the normalizer and of the matcher *)

\* the class [a-z<cyr_a>-<cyr_ya><cyr_yo>0-9] of main.py:25
main_KeptChar(c) == c \in AsciiLower \cup CyrillicLower \cup {"cyr_yo"} \cup Digits

\* slip: this copy does not lower the text before the class is applied
RECURSIVE main_normalize_text_NoLower(_)
main_normalize_text_NoLower(text) ==
    IF text = <<>> THEN <<>>
    ELSE (IF main_KeptChar(Head(text)) THEN <<Head(text)>> ELSE <<>>)
         \o main_normalize_text_NoLower(Tail(text))

RECURSIVE main_normalize_text(_)
\* main.py:17-27 on text
main_normalize_text(text) ==
    IF text = <<>> THEN <<>>
    ELSE LET c == LowerChar(Head(text)) IN
         (IF main_KeptChar(c) THEN <<c>> ELSE <<>>) \o main_normalize_text(Tail(text))

\* main.py:21-22 before main.py:24-25
main_normalize_value(v) == main_normalize_text(str(v))

\* main.py:30-35
main_normalize_filename(filename) == main_normalize_text(splitext_root(filename))

RECURSIVE main_scan(_, _)
\* the loop of main.py:152-154 over the items of self.descriptions
main_scan(file_norm, items) ==
    IF items = <<>> THEN NoMatch
    ELSE IF \/ IsSubstring(file_norm, Head(items).key)
            \/ IsSubstring(Head(items).key, file_norm)
    THEN Head(items).value
    ELSE main_scan(file_norm, Tail(items))

\* main.py:142-156; <<>> stands for None
find_description_for_file(filename, d) ==
    LET file_norm == main_normalize_filename(filename) IN
    IF file_norm \in DictKeys(d)
    THEN d[DictGet(d, file_norm)].value.description
    ELSE main_scan(file_norm, d).description

\* main.py:112-124: one spreadsheet row enters self.descriptions
load_row(d, row, index) ==
    IF row.name # <<>>
    THEN LET norm_name == main_normalize_text(row.name) IN
         IF norm_name # <<>> /\ row.desc # <<>>
         THEN DictSet(d, norm_name, [original_name |-> row.name,
                                     description |-> row.desc,
                                     excel_row |-> index + 1])
         ELSE d
    ELSE d

RECURSIVE load_rows(_, _, _)
load_rows(d, rows, index) ==
    IF index >= Len(rows) THEN d
    ELSE load_rows(load_row(d, rows[index + 1], index), rows, index + 1)

\* main.py:96-134
load_descriptions_from_excel(rows) == load_rows(<<>>, rows, 0)

(* inputs of the matcher *)

FileChars == {"a", "B", "-", "."}

RefNames ==
    { <<"a">>, <<"A", "b">>, <<"b", "a">>, <<"a", "-", "B">>, <<"-">> }

\* one spreadsheet row per name; the two names that normalize to the same
\* key ("A","b" and "a","-","B") carry different descriptions
Rows ==
    { [name |-> n, desc |-> IF Len(n) = 2 THEN <<"Y">> ELSE <<"X">>] : n \in RefNames }

InitMatch ==
    /\ remote = <<>>
    /\ nextId = 1
    /\ env = [exists |-> {}, keepsDescription |-> TRUE]
    /\ failures = 0
    /\ calls = <<>>
    /\ recs = <<>>
    /\ pc = "matcher"
    /\ u = NoFrame
    /\ b = NoBatch
    /\ \E filename \in SeqsUpTo(FileChars, MaxNameLen) \ {<<>>},
          rows \in SeqsUpTo(Rows, MaxRows) :
          m = [phase |-> "start", filename |-> filename, rows |-> rows,
               descriptions |-> <<>>, file_normalized |-> <<>>,
               matching_excel_name |-> <<>>, description |-> <<>>,
               matched |-> FALSE, described |-> FALSE]

\* main.py:252: the reference index is loaded before any file is matched
load_descriptions ==
    /\ m.phase = "start"
    /\ m' = [m EXCEPT !.phase = "loaded",
                      !.descriptions = load_descriptions_from_excel(m.rows)]
    /\ UNCHANGED <<remote, nextId, env, failures, calls, recs, pc, u, b>>

\* categorizer.py:131-134: the file's key, then find_matching_name
match_file ==
    /\ m.phase = "loaded"
    /\ ~m.matched
    /\ m' = [m EXCEPT !.matched = TRUE,
                      !.file_normalized = normalize_filename(m.filename),
                      !.matching_excel_name =
                          find_matching_name(normalize_filename(m.filename),
                                             m.descriptions)]
    /\ UNCHANGED <<remote, nextId, env, failures, calls, recs, pc, u, b>>

\* main.py:276: find_description_for_file on the file's name
describe_file ==
    /\ m.phase = "loaded"
    /\ ~m.described
    /\ m' = [m EXCEPT !.described = TRUE,
                      !.description = find_description_for_file(m.filename,
                                                                m.descriptions)]
    /\ UNCHANGED <<remote, nextId, env, failures, calls, recs, pc, u, b>>

NextMatch ==
    \/ load_descriptions
    \/ match_file
    \/ describe_file

SpecMatch == InitMatch /\ [][NextMatch]_vars

(* -------------------------------- C8 ---------------------------------- *)

\* the file's normalized key and the positions of the index standing in the
\* containment relation with it
FileKey == normalize_filename(m.filename)

RelatedEntries ==
    {k \in DOMAIN m.descriptions : Related(FileKey, m.descriptions[k].key)}

\* C8: whenever the normalized file key is itself a key of the reference
\* index, find_matching_name and find_description_for_file return what is
\* stored under exactly that key, also when an entry containing the key (or
\* contained in it) comes earlier in the index.
C8_ExactKeyWins ==
    \A k \in DOMAIN m.descriptions :
        m.descriptions[k].key = FileKey =>
            /\ m.matched =>
                  m.matching_excel_name = m.descriptions[k].value.original_name
            /\ m.described =>
                  m.description = m.descriptions[k].value.description

C8_Witness ==
    /\ m.matched /\ m.described
    /\ \E k \in DOMAIN m.descriptions : \E j \in 1..(k-1) :
          /\ m.descriptions[k].key = FileKey
          /\ j \in RelatedEntries
          /\ m.descriptions[j].value.description
                # m.descriptions[k].value.description

(* -------------------------------- C9 ---------------------------------- *)

\* C9: for a non-empty file key that is not a key of the index, the result is
\* the value of the first entry, in insertion order, whose key contains the
\* file key or is contained in it, and it is None exactly when no entry's key
\* stands in that relation with the file key.
C9_FirstRelatedEntry ==
    (FileKey # <<>> /\ FileKey \notin DictKeys(m.descriptions)) =>
        IF RelatedEntries = {}
        THEN /\ m.matched => m.matching_excel_name = <<>>
             /\ m.described => m.description = <<>>
        ELSE LET first == CHOOSE k \in RelatedEntries :
                              \A j \in RelatedEntries : k <= j
             IN  /\ m.matched =>
                       /\ m.matching_excel_name
                             = m.descriptions[first].value.original_name
                       /\ m.matching_excel_name # <<>>
                 /\ m.described =>
                       /\ m.description = m.descriptions[first].value.description
                       /\ m.description # <<>>

C9_Witness ==
    /\ m.matched /\ m.described
    /\ FileKey # <<>>
    /\ FileKey \notin DictKeys(m.descriptions)
    /\ \E j, k \in RelatedEntries :
          /\ j < k
          /\ IsSubstring(m.descriptions[j].key, FileKey)
          /\ m.descriptions[j].value.description
                # m.descriptions[k].value.description
          /\ m.description = m.descriptions[j].value.description

(* -------------------------------- C10 --------------------------------- *)

\* C10: an empty normalized file key is rejected before matching: whatever
\* the reference index, find_matching_name and find_description_for_file
\* return no match for a file whose normalized key is empty.
C10_EmptyKeyRejected ==
    FileKey = <<>> =>
        /\ m.matched => m.matching_excel_name = <<>>
        /\ m.described => m.description = <<>>

(* ------------------------- the normalizer alone ----------------------- *)

\* characters of the values handed to normalize_text: letters of both cases
\* and both alphabets, the letter outside the Cyrillic range, an accented
\* letter, a digit, white space and punctuation
NormChars == {"a", "B", "7", " ", "-", "CYR_YA", "cyr_yo", "E_ACUTE"}

\* the values that are not text: spreadsheet cells read as numbers
Numbers ==
    { [kind |-> "int", text |-> <<>>, num |-> 0, frac |-> 0],
      [kind |-> "int", text |-> <<>>, num |-> 0 - 7, frac |-> 0],
      [kind |-> "int", text |-> <<>>, num |-> 120, frac |-> 0],
      [kind |-> "float", text |-> <<>>, num |-> 12, frac |-> 5],
      [kind |-> "float", text |-> <<>>, num |-> 0 - 3, frac |-> 0] }

NormValues == {Text(t) : t \in SeqsUpTo(NormChars, MaxNameLen)} \cup Numbers

InitNorm ==
    /\ remote = <<>>
    /\ nextId = 1
    /\ env = [exists |-> {}, keepsDescription |-> TRUE]
    /\ failures = 0
    /\ calls = <<>>
    /\ recs = <<>>
    /\ pc = "normalizer"
    /\ u = NoFrame
    /\ b = NoBatch
    /\ \E v \in NormValues :
          m = [phase |-> "raw", value |-> v, normalized |-> <<>>,
               renormalized |-> <<>>]

\* categorizer.py:9-30 / main.py:17-27: normalize_text is called on a value
normalize_once ==
    /\ m.phase = "raw"
    /\ m' = [m EXCEPT !.phase = "normalized",
                      !.normalized = normalize_value(m.value)]
    /\ UNCHANGED <<remote, nextId, env, failures, calls, recs, pc, u, b>>

\* normalize_text is called on what it returned
normalize_again ==
    /\ m.phase = "normalized"
    /\ m' = [m EXCEPT !.phase = "renormalized",
                      !.renormalized = normalize_value(Text(m.normalized))]
    /\ UNCHANGED <<remote, nextId, env, failures, calls, recs, pc, u, b>>

NextNorm ==
    \/ normalize_once
    \/ normalize_again

SpecNorm == InitNorm /\ [][NextNorm]_vars

(* -------------------------------- C11 --------------------------------- *)

\* C11: normalize_text is idempotent: applied to its own result it returns
\* that result unchanged, whatever the value it was first given.
C11_Idempotent ==
    m.phase = "renormalized" => m.renormalized = m.normalized

C11_Witness ==
    /\ m.phase = "renormalized"
    /\ m.value.kind = "str"
    /\ m.normalized # <<>>
    /\ m.normalized # m.value.text

(* -------------------------------- C12 --------------------------------- *)

\* the characters the claim allows in a key, and the lowercased input
AllowedInKey ==
    AsciiLower \cup {"cyr_a", "cyr_ya", "cyr_yo"} \cup Digits

Lowered(text) == [k \in DOMAIN text |-> LowerChar(text[k])]

\* C12: for every input, text, empty text or a number, normalize_text returns
\* the lowercased input (its str() when it is not text) with every character
\* other than a-z, the small Cyrillic letters and 0-9 deleted, the kept ones
\* in their order; accented letters, white space and punctuation never
\* appear in it and empty input gives the empty string.
C12_NormalizeDefinition ==
    m.phase # "raw" =>
        /\ m.normalized = SelectSeq(Lowered(str(m.value)),
                                    LAMBDA c : c \in AllowedInKey)
        /\ \A k \in DOMAIN m.normalized :
              m.normalized[k] \notin {"e_acute", "E_ACUTE", " ", "-", ".", "B", "CYR_YA"}
        /\ str(m.value) = <<>> => m.normalized = <<>>

C12_Witness ==
    /\ m.phase = "normalized"
    /\ m.value.kind = "float"
    /\ m.normalized = <<"1", "2", "5">>

(* -------------------------------- C13 --------------------------------- *)

\* the name with the segment after its last "." removed, the whole name when
\* it holds no "."
BeforeLastDot(name) ==
    IF LastDot(name) = 0 THEN name ELSE SubSeq(name, 1, LastDot(name) - 1)

\* nothing but dots precedes the last "." of the name
OnlyDotsLead(name) ==
    LastDot(name) > 0 /\ \A k \in 1..(LastDot(name) - 1) : name[k] = "."

\* C13 as stated: for every file name the key used in matching is
\* normalize_text of the name cut at its last ".".
C13_KeyCutsAtLastDot ==
    m.matched => m.file_normalized = normalize_text(BeforeLastDot(m.filename))

\* C13 as amended: for every file name (a name without directory part) the
\* key used in matching is normalize_text of the name cut at its last ".",
\* except that a name in which only dots precede that "." is taken whole.
C13_KeyCutsAtLastDotUnlessLeading ==
    m.matched =>
        m.file_normalized =
            normalize_text(IF OnlyDotsLead(m.filename) THEN m.filename
                           ELSE BeforeLastDot(m.filename))

C13_Witness ==
    /\ m.matched
    /\ LastDot(m.filename) > 0
    /\ ~OnlyDotsLead(m.filename)
    /\ m.file_normalized # <<>>
    /\ m.file_normalized # normalize_text(m.filename)

(* ------------------------ building the index alone -------------------- *)

\* spreadsheet rows: the name cell and the description cell, either of which
\* may be empty (<<>> stands for an empty cell); "A","b" and "a","-","B"
\* normalize to the same key, "-" to the empty key
IndexNames == { <<>>, <<"a">>, <<"A", "b">>, <<"a", "-", "B">>, <<"-">> }

IndexDescs == { <<>>, <<"X">>, <<"Y">> }

IndexRows == [name : IndexNames, desc : IndexDescs]

\* categorizer.py:99 and 106-112: the names of the column without the empty
\* cells, then the dictionary key -> original name
RECURSIVE names_dict(_, _)
names_dict(d, rows) ==
    IF rows = <<>> THEN d
    ELSE LET name == Head(rows).name
             normalized == normalize_text(name)
         IN  names_dict(IF name # <<>> /\ normalized # <<>>
                        THEN DictSet(d, normalized, name) ELSE d,
                        Tail(rows))

InitIndex ==
    /\ remote = <<>>
    /\ nextId = 1
    /\ env = [exists |-> {}, keepsDescription |-> TRUE]
    /\ failures = 0
    /\ calls = <<>>
    /\ recs = <<>>
    /\ pc = "index"
    /\ u = NoFrame
    /\ b = NoBatch
    /\ \E rows \in SeqsUpTo(IndexRows, MaxRows) :
          m = [phase |-> "start", rows |-> rows, descriptions |-> <<>>,
               excel_names_normalized_dict |-> <<>>, names_built |-> FALSE]

\* categorizer.py:106-112: move_files_based_on_excel builds its dictionary
build_names_dict ==
    /\ m.phase \in {"start", "loaded"}
    /\ ~m.names_built
    /\ m' = [m EXCEPT !.names_built = TRUE,
                      !.excel_names_normalized_dict = names_dict(<<>>, m.rows)]
    /\ UNCHANGED <<remote, nextId, env, failures, calls, recs, pc, u, b>>

NextIndex ==
    \/ load_descriptions
    \/ build_names_dict

SpecIndex == InitIndex /\ [][NextIndex]_vars

(* -------------------------------- C14 --------------------------------- *)

\* the rows that normalize to key, and among them those with a description
RowsOfKey(key) ==
    {i \in DOMAIN m.rows :
        m.rows[i].name # <<>> /\ normalize_text(m.rows[i].name) = key}

WrittenRowsOfKey(key) == {i \in RowsOfKey(key) : m.rows[i].desc # <<>>}

Last(S) == CHOOSE i \in S : \A j \in S : j <= i

OneEntryPerKey(d) == \A j, k \in DOMAIN d : d[j].key = d[k].key => j = k

\* C14 as stated: the index built from any sequence of rows holds one entry
\* per key, and the entry of a key holds the original name and description
\* of the last row that normalizes to that key.
C14_LastRowWins ==
    m.phase = "loaded" =>
        /\ OneEntryPerKey(m.descriptions)
        /\ \A k \in DOMAIN m.descriptions :
              LET row == m.rows[Last(RowsOfKey(m.descriptions[k].key))] IN
              /\ m.descriptions[k].value.original_name = row.name
              /\ m.descriptions[k].value.description = row.desc

\* C14 as amended: the index holds one entry per key, for exactly the
\* non-empty keys of the rows that have a name and a description; the entry
\* holds the original name and description of the last such row of its key.
\* The dictionary of the categorizer, which reads no description, holds the
\* name of the last row of each non-empty key.
C14_LastWrittenRowWins ==
    /\ m.phase = "loaded" =>
        /\ OneEntryPerKey(m.descriptions)
        /\ DictKeys(m.descriptions) =
              {normalize_text(m.rows[i].name) : i \in
                  {j \in DOMAIN m.rows : /\ m.rows[j].name # <<>>
                                         /\ m.rows[j].desc # <<>>}} \ {<<>>}
        /\ \A k \in DOMAIN m.descriptions :
              LET last == Last(WrittenRowsOfKey(m.descriptions[k].key)) IN
              /\ m.descriptions[k].value.original_name = m.rows[last].name
              /\ m.descriptions[k].value.description = m.rows[last].desc
              /\ m.descriptions[k].value.excel_row = last
    /\ m.names_built =>
        /\ OneEntryPerKey(m.excel_names_normalized_dict)
        /\ DictKeys(m.excel_names_normalized_dict) =
              {normalize_text(m.rows[i].name) : i \in
                  {j \in DOMAIN m.rows : m.rows[j].name # <<>>}} \ {<<>>}
        /\ \A k \in DOMAIN m.excel_names_normalized_dict :
              m.excel_names_normalized_dict[k].value =
                  m.rows[Last(RowsOfKey(m.excel_names_normalized_dict[k].key))].name

C14_Witness ==
    /\ m.phase = "loaded"
    /\ m.names_built
    /\ \E i, j \in DOMAIN m.rows :
          /\ i < j
          /\ m.rows[i].name # m.rows[j].name
          /\ m.rows[i].desc # m.rows[j].desc
          /\ {i, j} \subseteq WrittenRowsOfKey(normalize_text(m.rows[j].name))
          /\ Len(m.descriptions) = 1
          /\ m.descriptions[1].value.description = m.rows[j].desc

(* ------------- a success status with a body that is not JSON ---------- *)

\* liferay_client.py:95-103: on status 200 with a body that json() cannot
\* decode, call_jsonws returns response.text, a str: the empty one or not
TextBodies == { <<>>, <<"<">> }

\* the str call_jsonws returned, where a caller hands it on as its result
TextResult(body) ==
    [fileEntryId |-> 0 - 1, title |-> NoText, name |-> NoText, description |-> body]

\* "if result:" on a str (file_uploader.py:83, 113, 214)
Truthy(body) == body # <<>>

\* a call answered that way, with what the method that issued it reported to
\* its own caller; the server is taken not to have acted on it
TextCall(op, by, rec, idx, id, body, reported) ==
    [op |-> op, by |-> by, rec |-> rec, idx |-> idx, id |-> id, ok |-> FALSE,
     nmatch |-> 0, body |-> body, reported |-> reported]

IsTextCall(c) == "body" \in DOMAIN c

Reported(success) == IF success THEN "success" ELSE "failure"

\* file_uploader.py:54-63: a str is not a list, check_file_exists returns None
uorf_check_file_exists_text ==
    /\ pc = "check"
    /\ failures < MaxFailures
    /\ \E body \in TextBodies :
        /\ calls' = Append(calls, TextCall("list", "uorf", Len(recs),
                                           recs[Len(recs)].idx, 0, body,
                                           Reported(FALSE)))
    /\ failures' = failures + 1
    /\ u' = [u EXCEPT !.existing_file = None]
    /\ pc' = IF NeedsDelete(None, u.replace_existing) THEN "delete" ELSE "add"
    /\ UNCHANGED <<remote, nextId, env, recs, b, m>>

\* file_uploader.py:288-299 with 54-63: the same in the batch's own check
batch_check_file_exists_text ==
    /\ pc = "batch_check"
    /\ failures < MaxFailures
    /\ \E body \in TextBodies :
        /\ calls' = Append(calls, TextCall("list", "batch", Len(recs) + 1, b.i, 0,
                                           body, Reported(FALSE)))
    /\ failures' = failures + 1
    /\ b' = [b EXCEPT !.existing_file = None,
                      !.is_replacement = IsReplacement(None, b.replace_existing)]
    /\ recs' = Append(recs, [file_path |-> b.files_list[b.i],
                             description |-> b.description,
                             replace_existing |-> b.replace_existing, idx |-> b.i,
                             returned |-> FALSE, ret |-> None])
    /\ u' = [file_path |-> b.files_list[b.i], description |-> b.description,
             replace_existing |-> b.replace_existing,
             existing_file |-> None, result |-> None]
    /\ pc' = "check"
    /\ UNCHANGED <<remote, nextId, env, m>>

\* file_uploader.py:111-118: delete_file returns True on any non-empty str
delete_file_text ==
    /\ pc = "delete"
    /\ failures < MaxFailures
    /\ \E body \in TextBodies :
        /\ calls' = Append(calls, TextCall("delete", "uorf", Len(recs),
                                           recs[Len(recs)].idx,
                                           u.existing_file.fileEntryId, body,
                                           Reported(Truthy(body))))
        /\ pc' = AfterDelete(Truthy(body))
    /\ failures' = failures + 1
    /\ UNCHANGED <<remote, nextId, env, recs, u, b, m>>

\* control leaves upload_or_replace_file with the str: a direct caller gets
\* it; in the batch result.get (file_uploader.py:305) raises AttributeError,
\* which nothing in upload_files_batch catches
ReturnText(body) ==
    /\ recs' = [recs EXCEPT ![Len(recs)].returned = TRUE,
                            ![Len(recs)].ret = TextResult(body)]
    /\ b' = b
    /\ pc' = IF b.active THEN "crashed" ELSE "idle"

\* file_uploader.py:212-229: _upload_file_internal on a str answer. An empty
\* one is falsy (line 224). A non-empty one passes line 214; with a
\* description line 219 calls result.get, the AttributeError is caught at
\* line 226 and None is returned; without a description line 222 returns the
\* str itself.
upload_file_internal_text ==
    /\ pc = "add"
    /\ failures < MaxFailures
    /\ \E body \in TextBodies :
        LET handed_on == Truthy(body) /\ u.description = NoText IN
        /\ calls' = Append(calls, TextCall("add", "uorf", Len(recs),
                                           recs[Len(recs)].idx, 0, body,
                                           Reported(handed_on)))
        /\ IF handed_on
           THEN /\ u' = [u EXCEPT !.result = TextResult(body)]
                /\ ReturnText(body)
           ELSE /\ u' = [u EXCEPT !.result = None]
                /\ IF AfterUpload(None, u.existing_file, u.replace_existing,
                                  u.description) = "fallback"
                   THEN /\ pc' = "fallback"
                        /\ UNCHANGED <<recs, b>>
                   ELSE Return(recs, None)
    /\ failures' = failures + 1
    /\ UNCHANGED <<remote, nextId, env, m>>

\* file_uploader.py:220 with 81-88: the patch answered by a str;
\* update_file_description returns True on a non-empty one
patch_description_text ==
    /\ pc = "patch"
    /\ failures < MaxFailures
    /\ \E body \in TextBodies :
        /\ calls' = Append(calls, TextCall("update", "uorf", Len(recs),
                                           recs[Len(recs)].idx,
                                           u.result.fileEntryId, body,
                                           Reported(Truthy(body))))
    /\ failures' = failures + 1
    /\ IF AfterUpload(u.result, u.existing_file, u.replace_existing,
                      u.description) = "fallback"
       THEN /\ pc' = "fallback"
            /\ UNCHANGED <<recs, b>>
       ELSE Return(recs, u.result)
    /\ UNCHANGED <<remote, nextId, env, u, m>>

\* file_uploader.py:175-176 with 81-88: the fallback update answered by a str
fallback_description_text ==
    /\ pc = "fallback"
    /\ failures < MaxFailures
    /\ \E body \in TextBodies :
        /\ calls' = Append(calls, TextCall("update", "uorf", Len(recs),
                                           recs[Len(recs)].idx,
                                           u.existing_file.fileEntryId, body,
                                           Reported(Truthy(body))))
    /\ failures' = failures + 1
    /\ Return(recs, u.existing_file)
    /\ UNCHANGED <<remote, nextId, env, u, m>>

NextText ==
    \/ upload_or_replace_file
    \/ uorf_check_file_exists
    \/ delete_file
    \/ upload_file_internal
    \/ patch_description
    \/ fallback_description
    \/ upload_files_batch
    \/ batch_loop
    \/ batch_check_file_exists
    \/ uorf_check_file_exists_text
    \/ batch_check_file_exists_text
    \/ delete_file_text
    \/ upload_file_internal_text
    \/ patch_description_text
    \/ fallback_description_text

SpecText == Init /\ [][NextText]_vars

(* -------------------------------- C15 --------------------------------- *)

\* C15: a remote call answered with a success status and a body that is not
\* JSON is treated as failed by its caller: delete_file and
\* update_file_description return False, the upload is reported as failed,
\* check_file_exists reports no document, and no exception reaches the batch.
C15_TextBodyIsFailure ==
    /\ \A k \in DOMAIN calls :
          IsTextCall(calls[k]) => calls[k].reported = "failure"
    /\ pc # "crashed"

(* ----------------------- process_files: a whole run ------------------- *)

\* what the run finds at startup (main.py:237-254), in the order of the tests
Startups == {"ok", "no_source_folder", "no_excel_file", "no_connection",
             "excel_unreadable"}

\* slip: the answer of the connectivity test is not looked at
StartupPasses_IgnoresConnection(startup) == startup \in {"ok", "no_connection"}

\* main.py:237-254: the four tests that must pass before files are listed
StartupPasses(startup) == startup = "ok"

\* the spreadsheets of the runs: none of the files matches the first; the
\* second matches a.j and a.p; in the third a.j and a.p match "A b" by
\* containment and b.j matches "b" exactly
RunSheets ==
    { <<>>,
      <<[name |-> <<"a">>, desc |-> <<"X">>]>>,
      <<[name |-> <<"A", " ", "b">>, desc |-> <<"Y">>],
        [name |-> <<"b">>, desc |-> <<"X">>]>> }

\* os.listdir: the files of the source folder in any order, each once
Listings ==
    {q \in SeqsUpTo(FileNames, MaxListed) : \A j, k \in DOMAIN q : q[j] = q[k] => j = k}

Range(q) == {q[k] : k \in DOMAIN q}

\* slip: every listed file is taken, with whatever the matcher returned
RECURSIVE FilesWithDescriptions_All(_, _)
FilesWithDescriptions_All(files, d) ==
    IF files = <<>> THEN <<>>
    ELSE <<[filename |-> Head(files),
            description |-> find_description_for_file(Head(files), d)]>>
         \o FilesWithDescriptions_All(Tail(files), d)

RECURSIVE FilesWithDescriptions(_, _)
\* main.py:275-278: files_with_descriptions, in the order of the listing
FilesWithDescriptions(files, d) ==
    IF files = <<>> THEN <<>>
    ELSE LET description == find_description_for_file(Head(files), d) IN
         (IF description # <<>>
          THEN <<[filename |-> Head(files), description |-> description]>>
          ELSE <<>>) \o FilesWithDescriptions(Tail(files), d)

\* main.py:380-386: the rows of the report
ReportData(files, fwd) ==
    [k \in DOMAIN files |->
        [filename |-> files[k],
         normalized |-> normalize_filename(files[k]),
         has_description |-> \E j \in DOMAIN fwd : fwd[j].filename = files[k]]]

InitRun ==
    /\ remote \in InitFolders
    /\ nextId = Len(remote) + 1
    /\ failures = 0
    /\ calls = <<>>
    /\ recs = <<>>
    /\ pc = "process_files"
    /\ u = NoFrame
    /\ b = NoBatch
    /\ \E startup \in Startups, files \in Listings, rows \in RunSheets,
          keepsDescription \in BOOLEAN :
          /\ env = [exists |-> Range(files), keepsDescription |-> keepsDescription]
          /\ m = [phase |-> "start", startup |-> startup, files |-> files,
                  rows |-> rows, descriptions |-> <<>>,
                  files_with_descriptions |-> <<>>, i |-> 0, pending |-> FALSE,
                  uploaded |-> <<>>, failed |-> <<>>, skipped |-> <<>>,
                  delays |-> <<>>, report |-> <<>>]

\* main.py:226-296 with 188-224: process_files up to its first upload
process_files ==
    /\ pc = "process_files"
    /\ IF ~StartupPasses(m.startup)
       THEN /\ m' = [m EXCEPT !.phase = "aborted"]
            /\ pc' = "end"
            /\ b' = b
       ELSE LET d == load_descriptions_from_excel(m.rows)
                fwd == FilesWithDescriptions(m.files, d)
                files_list == SelectSeq([k \in DOMAIN fwd |-> fwd[k].filename],
                                        LAMBDA f : f \in env.exists)
            IN  IF fwd = <<>>
                THEN /\ m' = [m EXCEPT !.phase = "nothing_to_upload",
                                       !.descriptions = d]
                     /\ pc' = "end"
                     /\ b' = b
                ELSE IF Len(fwd) <= IndividualLimit
                THEN /\ m' = [m EXCEPT !.phase = "individual", !.descriptions = d,
                                       !.files_with_descriptions = fwd, !.i = 1]
                     /\ pc' = "idle"
                     /\ b' = b
                ELSE /\ m' = [m EXCEPT !.phase = "batch", !.descriptions = d,
                                       !.files_with_descriptions = fwd]
                     /\ IF files_list = <<>>
                        THEN /\ pc' = "done"
                             /\ b' = b
                        ELSE /\ pc' = "batch_loop"
                             /\ b' = [NoBatch EXCEPT
                                  !.active = TRUE, !.files_list = files_list,
                                  !.i = 1, !.replace_existing = TRUE,
                                  !.description_template = NoText,
                                  !.metadata =
                                      [has |-> Range(files_list),
                                       description |->
                                          [n \in FileNames |->
                                              find_description_for_file(n, d)]]]
    /\ UNCHANGED <<remote, nextId, env, failures, calls, recs, u>>

\* main.py:312-321 with 158-169: the next file of _upload_files_individually
upload_files_individually ==
    /\ pc = "idle"
    /\ m.phase = "individual"
    /\ ~m.pending
    /\ m.i <= Len(m.files_with_descriptions)
    /\ LET item == m.files_with_descriptions[m.i] IN
       IF item.filename \notin env.exists
       THEN /\ m' = [m EXCEPT !.skipped = Append(@, item.filename), !.i = @ + 1]
            /\ UNCHANGED <<recs, u, pc, b>>
       ELSE /\ m' = [m EXCEPT !.pending = TRUE]
            /\ Enter(item.filename, item.description, TRUE, 0)
    /\ UNCHANGED <<remote, nextId, env, failures, calls>>

\* main.py:171-177 and 323-328: what upload_or_replace_file returned is
\* recorded; the loop then goes to its next item at once (it has no
\* time.sleep, so delays stays as it is)
record_individual_result ==
    /\ pc = "idle"
    /\ m.phase = "individual"
    /\ m.pending
    /\ LET filename == m.files_with_descriptions[m.i].filename IN
       m' = IF recs[Len(recs)].ret # None
            THEN [m EXCEPT !.uploaded = Append(@, filename), !.i = @ + 1,
                           !.pending = FALSE]
            ELSE [m EXCEPT !.failed = Append(@, filename), !.i = @ + 1,
                           !.pending = FALSE]
    /\ UNCHANGED <<remote, nextId, env, failures, calls, recs, pc, u, b>>

\* main.py:299 with 367-392: the report closes the run
generate_report ==
    /\ \/ /\ pc = "idle"
          /\ m.phase = "individual"
          /\ ~m.pending
          /\ m.i > Len(m.files_with_descriptions)
       \/ /\ pc = "done"
          /\ m.phase = "batch"
    /\ m' = [m EXCEPT !.phase = "reported",
                      !.report = ReportData(m.files, m.files_with_descriptions)]
    /\ pc' = "end"
    /\ UNCHANGED <<remote, nextId, env, failures, calls, recs, u, b>>

NextRun ==
    \/ process_files
    \/ upload_files_individually
    \/ record_individual_result
    \/ generate_report
    \/ uorf_check_file_exists
    \/ delete_file
    \/ upload_file_internal
    \/ patch_description
    \/ batch_loop
    \/ batch_check_file_exists

SpecRun == InitRun /\ [][NextRun]_vars

(* -------------------------------- C16 --------------------------------- *)

\* C16: when the source folder or the spreadsheet is missing, the spreadsheet
\* cannot be read or the connectivity test fails, process_files ends without
\* any listing, delete, create or description-update call.
C16_StartupAborts ==
    m.startup # "ok" =>
        /\ calls = <<>>
        /\ recs = <<>>
        /\ pc \in {"process_files", "end"}
        /\ pc = "end" => m.phase = "aborted"

C16_Witness ==
    /\ m.phase = "aborted"
    /\ m.startup = "no_connection"
    /\ m.files # <<>>
    /\ FilesWithDescriptions(m.files, load_descriptions_from_excel(m.rows)) # <<>>

(* -------------------------------- C18 --------------------------------- *)

\* the description the matcher resolves for a file from the run's index
Resolved(filename) ==
    find_description_for_file(filename, load_descriptions_from_excel(m.rows))

MatchedFiles == {f \in Range(m.files) : Resolved(f) # <<>>}

\* C18: in a run of process_files an upload is attempted for a listed file
\* if and only if the matcher resolved a description for it: unmatched files
\* cause no remote call, there are as many upload attempts as matched files,
\* and each upload carries the description resolved for its file.
C18_UploadIffMatched ==
    /\ \A r \in DOMAIN recs :
          /\ recs[r].file_path \in MatchedFiles
          /\ recs[r].description = Resolved(recs[r].file_path)
          /\ \A q \in DOMAIN recs : recs[q].file_path = recs[r].file_path => q = r
    /\ \A k \in DOMAIN calls :
          /\ calls[k].rec \in DOMAIN recs
          /\ recs[calls[k].rec].file_path \in MatchedFiles
    /\ m.phase = "reported" =>
          /\ {recs[r].file_path : r \in DOMAIN recs} = MatchedFiles
          /\ Len(recs) = Cardinality(MatchedFiles)
          /\ \A r \in DOMAIN recs : recs[r].returned

C18_Witness ==
    /\ m.phase = "reported"
    /\ MatchedFiles # {}
    /\ MatchedFiles # Range(m.files)
    /\ \E k \in DOMAIN calls : calls[k].op = "add" /\ calls[k].ok

(* ------------------------ check_file_exists (C21) --------------------- *)

\* the longest folder listing the check of check_file_exists is run on
MaxEntries == 2

U_J == <<"A", ".", "j">>

\* documents of a listing: titles and names that differ in letter case only,
\* a title that is the stem of another document's name
ListedDocs ==
    { Doc(1, <<"a">>, A_J, NoText), Doc(2, <<"A">>, U_J, NoText),
      Doc(3, <<"a">>, A_P, NoText), Doc(4, <<"b">>, A_J, NoText) }

CheckNames == {A_J, U_J, A_P, B_J}

\* what call_jsonws can hand to check_file_exists: a JSON list, None after an
\* error, the text of a non-JSON answer, a JSON object
Answers ==
    {[kind |-> "list", entries |-> s] : s \in SeqsUpTo(ListedDocs, MaxEntries)}
        \cup {[kind |-> k, entries |-> <<>>] : k \in {"none", "text", "dict"}}

\* file_uploader.py:55-63: the listing is searched only when the answer is a
\* non-empty list
check_file_exists_result(result, filename) ==
    check_file_exists(result.kind = "list", result.entries, filename)

InitCheck ==
    /\ remote = <<>>
    /\ nextId = 1
    /\ env = [exists |-> {}, keepsDescription |-> TRUE]
    /\ failures = 0
    /\ calls = <<>>
    /\ recs = <<>>
    /\ pc = "check_file_exists"
    /\ u = NoFrame
    /\ b = NoBatch
    /\ \E f \in CheckNames, r \in Answers :
          m = [phase |-> "asked", filename |-> f, result |-> r,
               existing_file |-> None]

\* file_uploader.py:33-67: check_file_exists on the answer of the listing call
check_listing ==
    /\ m.phase = "asked"
    /\ m' = [m EXCEPT !.phase = "checked",
                      !.existing_file =
                          check_file_exists_result(m.result, m.filename)]
    /\ UNCHANGED <<remote, nextId, env, failures, calls, recs, pc, u, b>>

NextCheck == check_listing

SpecCheck == InitCheck /\ [][NextCheck]_vars

\* positions of the listing whose title is the file's stem or whose name is
\* the file's name, character for character
VerbatimHits ==
    IF m.result.kind = "list"
    THEN {k \in DOMAIN m.result.entries :
            \/ m.result.entries[k].title = splitext_root(m.filename)
            \/ m.result.entries[k].name = m.filename}
    ELSE {}

\* C21: check_file_exists returns a document iff the listing is a list holding
\* an entry whose title is the file name without extension or whose name is
\* the file name, compared verbatim; it returns the first such entry, and None
\* when the listing call failed or the answer is not a list.
C21_FirstVerbatimMatch ==
    m.phase = "checked" =>
        IF VerbatimHits = {} THEN m.existing_file = None
        ELSE /\ m.existing_file # None
             /\ \E k \in VerbatimHits :
                   /\ \A j \in VerbatimHits : k <= j
                   /\ m.existing_file = m.result.entries[k]

\* the file matches the second entry of a listing whose first entry differs
\* from the file's name in letter case only
C21_Witness ==
    /\ m.phase = "checked"
    /\ m.result.kind = "list"
    /\ Cardinality(VerbatimHits) = 1
    /\ Len(m.result.entries) = 2
    /\ 1 \notin VerbatimHits
    /\ m.result.entries[1].name = U_J
    /\ m.filename = A_J
    /\ m.existing_file = m.result.entries[2]

(* -------------------------------- C22 --------------------------------- *)

\* the pauses of the batch loop separate every two consecutive
\* reconciliations of the batch, and none is made after the last item
BatchDelays ==
    b.active =>
        /\ \A k \in 1..(Len(recs) - 1) :
              \E j \in DOMAIN b.delays :
                  recs[k].idx <= b.delays[j] /\ b.delays[j] < recs[k+1].idx
        /\ \A j \in DOMAIN b.delays : b.delays[j] < Len(b.files_list)

\* as many pauses as there are gaps between the reconciliations of the
\* one-by-one loop, and none after its last item
IndividualDelays ==
    m.phase \in {"individual", "reported"} /\ ~b.active =>
        /\ Len(m.delays) >= Len(recs) - 1
        /\ \A j \in DOMAIN m.delays : m.delays[j] < Len(m.files_with_descriptions)

\* C22: in a run a fixed delay happens between every two consecutive per-file
\* reconciliations and none follows the last item, on the batch path
\* (upload_files_batch) and on the one-by-one path of process_files.
C22_DelayBetweenItems ==
    BatchDelays /\ IndividualDelays

(* ------------------------- upload_directory (C23) --------------------- *)

B_UJ == <<"b", ".", "J">>
C_NOEXT == <<"c">>

\* the files of the walked directory: a lower-case extension, the same
\* extension in upper case, no extension
DirNames == {A_J, B_UJ, C_NOEXT}

DirListings ==
    {q \in SeqsUpTo(DirNames, MaxFiles) : \A j, k \in DOMAIN q : q[j] = q[k] => j = k}

\* the extensions argument: None or [], ['.j'], ['.J'], ['j'], ['..j']
AllowLists ==
    { {}, {<<".", "j">>}, {<<".", "J">>}, {<<"j">>}, {<<".", ".", "j">>} }

\* os.path.splitext(name)[1]: what splitext_root leaves of the name
splitext_ext(s) == SubSeq(s, Len(splitext_root(s)) + 1, Len(s))

\* file_uploader.py:455-463
check_file_extension(filename, extensions) ==
    IF extensions = {} THEN TRUE
    ELSE LET file_ext == Lowered(splitext_ext(filename)) IN
         file_ext \in extensions \/ (<<".">> \o file_ext) \in extensions

InitDir ==
    /\ remote \in InitFolders
    /\ nextId = Len(remote) + 1
    /\ failures = 0
    /\ calls = <<>>
    /\ recs = <<>>
    /\ pc = "upload_directory"
    /\ u = NoFrame
    /\ b = NoBatch
    /\ \E listing \in DirListings, extensions \in AllowLists,
          directory_exists, replace_existing \in BOOLEAN :
          /\ env = [exists |-> Range(listing), keepsDescription |-> TRUE]
          /\ m = [phase |-> "start", directory_exists |-> directory_exists,
                  listing |-> listing, extensions |-> extensions,
                  replace_existing |-> replace_existing, files_list |-> <<>>]

\* file_uploader.py:331-371: the files of the directory that pass the
\* extension test are handed to upload_files_batch
upload_directory ==
    /\ pc = "upload_directory"
    /\ IF ~m.directory_exists
       THEN /\ m' = [m EXCEPT !.phase = "no_directory"]
            /\ pc' = "end"
            /\ b' = b
       ELSE LET files_list ==
                    SelectSeq(m.listing,
                              LAMBDA f : check_file_extension(f, m.extensions))
            IN  /\ m' = [m EXCEPT !.phase = "walked", !.files_list = files_list]
                /\ pc' = "batch_loop"
                /\ b' = [NoBatch EXCEPT !.active = TRUE, !.files_list = files_list,
                                        !.i = 1,
                                        !.replace_existing = m.replace_existing]
    /\ UNCHANGED <<remote, nextId, env, failures, calls, recs, u>>

NextDir ==
    \/ upload_directory
    \/ batch_loop
    \/ batch_check_file_exists
    \/ uorf_check_file_exists
    \/ delete_file
    \/ upload_file_internal

SpecDir == InitDir /\ [][NextDir]_vars

\* the extension of the file equals an entry of the allow-list when letter
\* case is ignored, or there is no allow-list
AcceptedIgnoringCase(filename, extensions) ==
    \/ extensions = {}
    \/ \E x \in extensions : Lowered(x) = Lowered(splitext_ext(filename))

\* C23: _check_file_extension accepts every file when the allow-list is empty
\* or absent and otherwise exactly the files whose extension equals an entry
\* of the allow-list ignoring letter case; upload_directory uploads only
\* accepted files.
C23_ExtensionFilter ==
    m.phase = "walked" =>
        /\ \A k \in DOMAIN m.listing :
              check_file_extension(m.listing[k], m.extensions)
                  <=> AcceptedIgnoringCase(m.listing[k], m.extensions)
        /\ m.files_list =
              SelectSeq(m.listing,
                        LAMBDA f : AcceptedIgnoringCase(f, m.extensions))
        /\ \A k \in DOMAIN recs :
              AcceptedIgnoringCase(recs[k].file_path, m.extensions)

(* ----------------------- find_partial_matches (C24) ------------------- *)

\* categorizer.py:248: the fewest common characters of a reported match
MinCommon == 3

PartialChars == {"a", "b", "c", "."}

PartialFiles == SeqsUpTo(PartialChars, MaxNameLen) \ {<<>>}

\* the names of the column: two contain "abc", one of them is "abc" up to
\* case and punctuation, two share shorter pieces with it
PartialNames ==
    { <<"a", "b", "c">>, <<"c", "a", "b", "c">>, <<"A", "-", "b", "c">>,
      <<"b", "c", "a">>, <<"a", "b">> }

PartialSheets == SeqsUpTo([name : PartialNames], MaxRows)

\* categorizer.py:236-240: the while loop, from file_norm[i] and excel_norm[j]
RECURSIVE RunLength(_, _, _, _)
RunLength(file_norm, excel_norm, i, j) ==
    IF i <= Len(file_norm) /\ j <= Len(excel_norm) /\ file_norm[i] = excel_norm[j]
    THEN 1 + RunLength(file_norm, excel_norm, i + 1, j + 1)
    ELSE 0

Largest(S) == CHOOSE x \in S : \A y \in S : y <= x

\* categorizer.py:227-242
common_len(file_norm, excel_norm) ==
    IF IsSubstring(file_norm, excel_norm) THEN Len(file_norm)
    ELSE IF IsSubstring(excel_norm, file_norm) THEN Len(excel_norm)
    ELSE Largest({0} \cup {RunLength(file_norm, excel_norm, i, j) :
                              i \in 1..Len(file_norm), j \in 1..Len(excel_norm)})

\* slip: an entry as good as the best so far replaces it
BetterMatch_OrEqual(score, best_score) == score >= best_score

\* categorizer.py:244
BetterMatch(score, best_score) == score > best_score

NoBest == [found |-> FALSE, excel_orig |-> <<>>, excel_norm |-> <<>>, score |-> 0]

\* categorizer.py:222-246: the loop over the items of the dictionary
RECURSIVE best_match(_, _, _)
best_match(file_norm, d, best) ==
    IF d = <<>> THEN best
    ELSE LET score == common_len(file_norm, Head(d).key) IN
         best_match(file_norm, Tail(d),
                    IF BetterMatch(score, best.score)
                    THEN [found |-> TRUE, excel_orig |-> Head(d).value,
                          excel_norm |-> Head(d).key, score |-> score]
                    ELSE best)

\* categorizer.py:248-249: what is appended to results for the file, if
\* anything
partial_match(file_norm, d) ==
    LET best == best_match(file_norm, d, NoBest) IN
    [best EXCEPT !.found = best.found /\ best.score >= MinCommon]

InitPartial ==
    /\ remote = <<>>
    /\ nextId = 1
    /\ env = [exists |-> {}, keepsDescription |-> TRUE]
    /\ failures = 0
    /\ calls = <<>>
    /\ recs = <<>>
    /\ pc = "find_partial_matches"
    /\ u = NoFrame
    /\ b = NoBatch
    /\ \E filename \in PartialFiles, rows \in PartialSheets :
          m = [phase |-> "start", filename |-> filename, rows |-> rows,
               excel_normalized_dict |-> <<>>, file_norm |-> <<>>,
               result |-> NoBest]

\* categorizer.py:186-249 for one file of the folder
find_partial_matches ==
    /\ m.phase = "start"
    /\ LET d == names_dict(<<>>, m.rows)
           file_norm == normalize_filename(m.filename)
       IN  m' = [m EXCEPT !.phase = "searched", !.excel_normalized_dict = d,
                          !.file_norm = file_norm,
                          !.result = partial_match(file_norm, d)]
    /\ UNCHANGED <<remote, nextId, env, failures, calls, recs, pc, u, b>>

NextPartial == find_partial_matches

SpecPartial == InitPartial /\ [][NextPartial]_vars

\* the length of the longest piece of x that occurs in y
LongestCommon(x, y) ==
    Largest({n \in 0..Len(x) :
                \E i \in 1..(Len(x) - n + 1) : IsSubstring(SubSeq(x, i, i + n - 1), y)})

\* the best length any entry of the index reaches with the file's key
TopScore ==
    Largest({0} \cup {LongestCommon(m.file_norm, m.excel_normalized_dict[k].key) :
                          k \in DOMAIN m.excel_normalized_dict})

TopEntries ==
    {k \in DOMAIN m.excel_normalized_dict :
        LongestCommon(m.file_norm, m.excel_normalized_dict[k].key) = TopScore}

\* C24: find_partial_matches reports a file iff the greatest length of a
\* common contiguous piece of its key and a reference key is at least 3, and
\* the reference it reports is the first entry of the index, in iteration
\* order, that reaches this greatest length.
C24_FirstBestAtLeastThree ==
    m.phase = "searched" =>
        /\ m.result.found <=> TopScore >= 3
        /\ m.result.found =>
              \E k \in TopEntries :
                  /\ \A j \in TopEntries : k <= j
                  /\ m.result.excel_norm = m.excel_normalized_dict[k].key
                  /\ m.result.excel_orig = m.excel_normalized_dict[k].value
                  /\ m.result.score = TopScore

\* two entries of the index hold the file's key "abc"; the first one is
\* reported
C24_Witness ==
    /\ m.phase = "searched"
    /\ m.result.found
    /\ Cardinality(TopEntries) = 2
    /\ m.result.excel_norm = m.excel_normalized_dict[1].key
    /\ m.result.score = 3

(* -------------------------------- C25 --------------------------------- *)

\* C25: every run of process_files that gets as far as listing the source
\* folder ends with the report, which holds one row per listed file, in the
\* order of the listing, flagged iff a description was resolved for the
\* file; runs in which no file matched included.
C25_ReportClosesEveryRun ==
    pc = "end" /\ StartupPasses(m.startup) =>
        /\ m.phase = "reported"
        /\ Len(m.report) = Len(m.files)
        /\ \A k \in DOMAIN m.report :
              /\ m.report[k].filename = m.files[k]
              /\ m.report[k].has_description <=> m.files[k] \in MatchedFiles

(* -------------------------------- C26 --------------------------------- *)

\* a batch with replace_existing=True over distinct file names has ended and
\* none of its remote calls failed
CleanReplacingBatchEnded ==
    /\ pc = "done"
    /\ b.active
    /\ b.replace_existing
    /\ \A j, k \in DOMAIN b.files_list : b.files_list[j] = b.files_list[k] => j = k
    /\ \A k \in DOMAIN calls : calls[k].ok

\* C26: after upload_files_batch with replace_existing=True over distinct
\* file names, every remote call succeeding, the document of every file
\* recorded as successful is still in the folder: no reconciliation deleted
\* the document created for another file of the batch.
C26_BatchKeepsItsDocuments ==
    CleanReplacingBatchEnded =>
        \A k \in DOMAIN b.successful :
            b.successful[k].file_entry_id \in Ids(remote)

(* -------------------------------- C27 --------------------------------- *)

\* reconciliation r found a document by its own existence check and issued a
\* delete call for it
FoundAndDeleted(r) ==
    \E l \in CallsOf(r, "list") :
        /\ calls[l].id # 0
        /\ \E d \in CallsOf(r, "delete") : calls[d].id = calls[l].id

\* C27: in upload_files_batch a file is in the replaced list (was_replaced
\* true) only if it is in the successful list and its reconciliation found
\* an existing document and issued a delete call for it, whichever listing
\* calls fail.
C27_ReplacedMeansDeleted ==
    b.active =>
        \A k \in DOMAIN b.replaced :
            /\ b.replaced[k].was_replaced
            /\ \E j \in DOMAIN b.successful : b.successful[j] = b.replaced[k]
            /\ \E r \in DOMAIN recs :
                  /\ recs[r].returned
                  /\ recs[r].file_path = b.replaced[k].file_path
                  /\ recs[r].ret.fileEntryId = b.replaced[k].file_entry_id
                  /\ FoundAndDeleted(r)

(* -------------------------------- C28 --------------------------------- *)

\* a create call or a description-update call of reconciliation r succeeded
SomeWriteSucceeded(r) ==
    \/ \E a \in CallsOf(r, "add") : calls[a].ok
    \/ \E p \in CallsOf(r, "update") : calls[p].ok

\* C28: upload_or_replace_file returns a document, and the batch records the
\* file as successful, only if a remote write of that reconciliation
\* succeeded: the create call or, in the replace_existing=False fallback, the
\* description update of the existing document.
C28_SuccessMeansWritten ==
    /\ \A r \in DOMAIN recs :
          recs[r].returned /\ recs[r].ret # None => SomeWriteSucceeded(r)
    /\ b.active =>
          \A k \in DOMAIN b.successful :
              \E r \in DOMAIN recs :
                  /\ recs[r].returned
                  /\ recs[r].idx > 0
                  /\ recs[r].file_path = b.successful[k].file_path
                  /\ recs[r].ret.fileEntryId = b.successful[k].file_entry_id
                  /\ SomeWriteSucceeded(r)

(* -------------------------------- C29 --------------------------------- *)

\* C29: upload_or_replace_file issues no delete call when replace_existing
\* is false and at most one per reconciliation, and the document of a delete
\* call is the one its own existence check returned; no document leaves the
\* folder otherwise.
C29_DeletesOnlyWhatItFound ==
    /\ \A d \in DOMAIN calls :
          calls[d].op = "delete" =>
              /\ calls[d].by = "uorf"
              /\ recs[calls[d].rec].replace_existing
              /\ \A d2 \in DOMAIN calls :
                    calls[d2].op = "delete" /\ calls[d2].rec = calls[d].rec => d2 = d
              /\ \E l \in 1..(d - 1) :
                    /\ calls[l].op = "list"
                    /\ calls[l].by = "uorf"
                    /\ calls[l].rec = calls[d].rec
                    /\ calls[l].ok
                    /\ calls[l].id # 0
                    /\ calls[l].id = calls[d].id
    /\ \A id \in 1..(nextId - 1) :
          id \notin Ids(remote) =>
              \E d \in DOMAIN calls :
                  calls[d].op = "delete" /\ calls[d].ok /\ calls[d].id = id

\* one reconciliation found a document and deleted it, another found one
\* with replace_existing false and left it alone
C29_Witness ==
    /\ \E d \in DOMAIN calls :
          calls[d].op = "delete" /\ calls[d].ok /\ calls[d].id \notin Ids(remote)
    /\ \E l \in DOMAIN calls :
          /\ calls[l].op = "list"
          /\ calls[l].by = "uorf"
          /\ calls[l].id # 0
          /\ ~recs[calls[l].rec].replace_existing
          /\ recs[calls[l].rec].returned

(* --------------------- the two copies side by side (C30) -------------- *)

NoCopies ==
    [kind |-> "value", phase |-> "start", value |-> Text(<<>>),
     filename |-> <<>>, rows |-> <<>>, descriptions |-> <<>>,
     main_key |-> <<>>, categorizer_key |-> <<>>,
     description |-> <<>>, matching_excel_name |-> <<>>]

InitCopies ==
    /\ remote = <<>>
    /\ nextId = 1
    /\ env = [exists |-> {}, keepsDescription |-> TRUE]
    /\ failures = 0
    /\ calls = <<>>
    /\ recs = <<>>
    /\ pc = "copies"
    /\ u = NoFrame
    /\ b = NoBatch
    /\ \/ \E v \in NormValues : m = [NoCopies EXCEPT !.value = v]
       \/ \E filename \in SeqsUpTo(FileChars, MaxNameLen) \ {<<>>},
             rows \in SeqsUpTo(Rows, MaxRows) :
             m = [NoCopies EXCEPT !.kind = "file", !.filename = filename,
                                  !.rows = rows]

\* main.py:17-27 and categorizer.py:9-30 are given the same value
normalize_in_both ==
    /\ m.kind = "value"
    /\ m.phase = "start"
    /\ m' = [m EXCEPT !.phase = "done",
                      !.main_key = main_normalize_value(m.value),
                      !.categorizer_key = normalize_value(m.value)]
    /\ UNCHANGED <<remote, nextId, env, failures, calls, recs, pc, u, b>>

\* main.py:142-156 and categorizer.py:131-135 are given the same file name,
\* over the index main.py:96-134 built
match_in_both ==
    /\ m.kind = "file"
    /\ m.phase = "start"
    /\ LET d == load_descriptions_from_excel(m.rows) IN
       m' = [m EXCEPT !.phase = "done",
                      !.descriptions = d,
                      !.main_key = main_normalize_filename(m.filename),
                      !.categorizer_key = normalize_filename(m.filename),
                      !.description = find_description_for_file(m.filename, d),
                      !.matching_excel_name =
                          find_matching_name(normalize_filename(m.filename), d)]
    /\ UNCHANGED <<remote, nextId, env, failures, calls, recs, pc, u, b>>

NextCopies ==
    \/ normalize_in_both
    \/ match_in_both

SpecCopies == InitCopies /\ [][NextCopies]_vars

\* the entries of the index whose original name find_matching_name returned
NamedEntries ==
    {k \in DOMAIN m.descriptions :
        m.descriptions[k].value.original_name = m.matching_excel_name}

\* C30: normalize_text and normalize_filename of main.py return the key
\* those of categorizer.py return, for every value and file name, and
\* find_description_for_file returns the description of the very entry
\* whose name find_matching_name returns for the file's key over the same
\* index, or nothing when that returns nothing.
C30_CopiesAgree ==
    m.phase = "done" =>
        /\ m.main_key = m.categorizer_key
        /\ m.kind = "file" =>
              IF m.matching_excel_name = <<>>
              THEN m.description = <<>>
              ELSE /\ Cardinality(NamedEntries) = 1
                   /\ \A k \in NamedEntries :
                         m.description = m.descriptions[k].value.description

\* both copies select, by containment, the second entry of an index in
\* which no key is the file's key, for a file name whose key differs from it
C30_Witness ==
    /\ m.phase = "done"
    /\ m.kind = "file"
    /\ m.main_key # m.filename
    /\ m.main_key # <<>>
    /\ Len(m.descriptions) = 2
    /\ m.main_key \notin DictKeys(m.descriptions)
    /\ NamedEntries = {2}
    /\ m.description = m.descriptions[2].value.description
    /\ m.descriptions[1].value.description # m.descriptions[2].value.description

====
